---- MODULE Spec2Model ----
(***************************************************************************)
(* One run of dashboard.py: the script is a straight line from the fetch   *)
(* of the price history to the statistics table.  pc is the position of    *)
(* the run in the script, the other variables are the script's variables.  *)
(*                                                                         *)
(* Numbers.  The script computes on numpy float64 values.  A number is     *)
(* modelled as an exact fraction n/d in lowest terms, or as one of the     *)
(* IEEE special values the script can produce (NaN, +inf, -inf): numpy     *)
(* never raises on a division by zero, it returns inf or NaN.  Rounding    *)
(* to 53 bits and the sign of zero are not modelled.  A script variable    *)
(* that has not been assigned yet holds Unset.                             *)
(***************************************************************************)
EXTENDS Integers, Sequences, FiniteSets, TLC

VARIABLES pc, data, error, current_price, previous_price, change, change_pct,
          ma7, daily_returns, investment, first_price, shares, current_value,
          profit, profit_pct, profit_msg, clean_returns, volatility,
          avg_return, max_gain, max_loss, risk, stats

vars == <<pc, data, error, current_price, previous_price, change, change_pct,
          ma7, daily_returns, investment, first_price, shares, current_value,
          profit, profit_pct, profit_msg, clean_returns, volatility,
          avg_return, max_gain, max_loss, risk, stats>>

(***************************************************************************)
(* Bounds of the model                                                     *)
(***************************************************************************)
\* closes of the exhaustively enumerated short series lie in -MaxNeg..MaxClose
MaxNeg == 1
MaxClose == 2
\* longest exhaustively enumerated short series
MaxLen == 4
\* series long enough for the moving average have WINDOW..MaxLongLen bars
MaxLongLen == 8
\* the slider positions tried: the lowest MaxSliderSteps+1, the default, the top
MaxSliderSteps == 2

(***************************************************************************)
(* float64 values                                                          *)
(***************************************************************************)
Abs(x) == IF x < 0 THEN -x ELSE x

RECURSIVE GCD(_, _)
GCD(a, b) == IF b = 0 THEN a ELSE GCD(b, a % b)

NaN == [k |-> "nan", n |-> 0, d |-> 1]
PInf == [k |-> "inf", n |-> 1, d |-> 1]
NInf == [k |-> "inf", n |-> -1, d |-> 1]
Unset == [k |-> "unset", n |-> 0, d |-> 1]

\* the finite value n/d (d # 0), in lowest terms with a positive denominator
Fin(n, d) ==
    LET g == GCD(Abs(n), Abs(d))
        s == IF d < 0 THEN -1 ELSE 1
    IN [k |-> "fin", n |-> s * (n \div g), d |-> s * (d \div g)]

Num(i) == [k |-> "fin", n |-> i, d |-> 1]

IsFin(a) == a.k = "fin"
IsNaN(a) == a.k = "nan"
IsInf(a) == a.k = "inf"
IsNumber(a) == a.k \in {"fin", "inf"}

\* -1, 0 or 1; meaningless for NaN
Sgn(a) == IF a.n > 0 THEN 1 ELSE IF a.n < 0 THEN -1 ELSE 0

Neg(a) == IF IsNaN(a) THEN NaN ELSE [a EXCEPT !.n = -a.n]

Add(a, b) ==
    IF IsNaN(a) \/ IsNaN(b) THEN NaN
    ELSE IF IsInf(a) /\ IsInf(b) THEN (IF a.n = b.n THEN a ELSE NaN)
    ELSE IF IsInf(a) THEN a
    ELSE IF IsInf(b) THEN b
    ELSE LET g == GCD(a.d, b.d)
             l == (a.d \div g) * b.d
         IN Fin(a.n * (l \div a.d) + b.n * (l \div b.d), l)

Sub(a, b) == Add(a, Neg(b))

Mul(a, b) ==
    IF IsNaN(a) \/ IsNaN(b) THEN NaN
    ELSE IF IsInf(a) \/ IsInf(b)
         THEN (IF Sgn(a) * Sgn(b) = 0 THEN NaN
               ELSE IF Sgn(a) * Sgn(b) > 0 THEN PInf ELSE NInf)
    ELSE LET g1 == GCD(Abs(a.n), b.d)
             g2 == GCD(Abs(b.n), a.d)
         IN Fin((a.n \div g1) * (b.n \div g2), (a.d \div g2) * (b.d \div g1))

\* numpy true division: x/0 is +-inf, 0/0 is NaN, nothing is raised
Div(a, b) ==
    IF IsNaN(a) \/ IsNaN(b) THEN NaN
    ELSE IF IsInf(b) THEN (IF IsInf(a) THEN NaN ELSE Num(0))
    ELSE IF b.n = 0
         THEN (IF Sgn(a) = 0 THEN NaN ELSE IF Sgn(a) > 0 THEN PInf ELSE NInf)
    ELSE IF IsInf(a) THEN (IF Sgn(a) * Sgn(b) > 0 THEN PInf ELSE NInf)
    ELSE Mul(a, Fin(b.d, b.n))

\* a > b as float64 compares: false when either side is NaN
Gt(a, b) ==
    IF IsNaN(a) \/ IsNaN(b) THEN FALSE
    ELSE IF IsInf(a) THEN a.n > 0 /\ a # b
    ELSE IF IsInf(b) THEN b.n < 0
    ELSE a.n * b.d > b.n * a.d

\* the non-negative square root of a finite non-negative value is kept as
\* its radicand; it is only ever compared with a non-negative integer
Sqrt(a) == IF IsFin(a) /\ a.n >= 0 THEN [a EXCEPT !.k = "root"] ELSE NaN

IsRoot(a) == a.k = "root"

\* sqrt(n/d) > t for an integer t >= 0; false for NaN
GtThreshold(v, t) == IsRoot(v) /\ v.n > t * t * v.d

(***************************************************************************)
(* pandas Series operations on data['Close']                               *)
(***************************************************************************)
Close(s) == [i \in 1..Len(s) |-> Num(s[i])]

RECURSIVE SumSeq(_)
SumSeq(s) == IF s = <<>> THEN Num(0) ELSE Add(s[1], SumSeq(Tail(s)))

RECURSIVE MaxSeq(_)
MaxSeq(s) ==
    IF Len(s) = 1 THEN s[1]
    ELSE LET m == MaxSeq(Tail(s)) IN IF Gt(s[1], m) THEN s[1] ELSE m

RECURSIVE MinSeq(_)
MinSeq(s) ==
    IF Len(s) = 1 THEN s[1]
    ELSE LET m == MinSeq(Tail(s)) IN IF Gt(m, s[1]) THEN s[1] ELSE m

Mean(s) == Div(SumSeq(s), Num(Len(s)))

WINDOW == 7

\* a rolling mean that lets partial windows through (min_periods = 1)
RollingMeanPartial(s, window) ==
    [i \in 1..Len(s) |->
        IF i < window THEN Div(SumSeq(SubSeq(s, 1, i)), Num(i))
        ELSE Div(SumSeq(SubSeq(s, i - window + 1, i)), Num(window))]

\* Series.rolling(window).mean(): min_periods defaults to the window, so the
\* first window-1 points are NaN
RollingMean(s, window) ==
    [i \in 1..Len(s) |->
        IF i < window THEN NaN
        ELSE Div(SumSeq(SubSeq(s, i - window + 1, i)), Num(window))]

\* Series.pct_change(): s / s.shift(1) - 1, the first point has no
\* predecessor and is NaN
PctChange(s) ==
    [i \in 1..Len(s) |->
        IF i = 1 THEN NaN ELSE Sub(Div(s[i], s[i - 1]), Num(1))]

ScaleSeq(s, c) == [i \in 1..Len(s) |-> Mul(s[i], c)]

\* fillna(0) in place of dropna(): the missing first return counted as zero
FillNaZero(s) == [i \in 1..Len(s) |-> IF IsNaN(s[i]) THEN Num(0) ELSE s[i]]

\* Series.dropna(): NaN is dropped, +-inf is kept
DropNa(s) == SelectSeq(s, LAMBDA x : ~IsNaN(x))

\* Series.std(): sample standard deviation (ddof = 1); NaN when fewer than
\* two values are left
Std(s) ==
    IF Len(s) - 1 <= 0 THEN NaN
    ELSE LET avg == Mean(s)
             sqr == [i \in 1..Len(s) |-> Mul(Sub(avg, s[i]), Sub(avg, s[i]))]
         IN Sqrt(Div(SumSeq(sqr), Num(Len(s) - 1)))

(***************************************************************************)
(* Inputs: what the market data provider may return, and the slider        *)
(***************************************************************************)
Closes == (0 - MaxNeg)..MaxClose

LongCloses == {1, 2}

ShortSeries == UNION {[1..n -> Closes] : n \in 0..MaxLen}

LongSeries == UNION {[1..n -> LongCloses] : n \in WINDOW..MaxLongLen}

\* the worked scenarios: -11 / -10% / -1%; a 20% gain; sample standard
\* deviations of exactly 4, exactly 2 and 3
ScenarioSeries == {<<100, 110, 99>>, <<100, 120>>,
                   <<2500, 2400, 2400, 2496>>, <<2500, 2450, 2450, 2499>>,
                   <<10000, 9700, 9700, 9991>>}

SeriesInputs == ShortSeries \cup LongSeries \cup ScenarioSeries

SliderMin == 100
SliderMax == 10000
SliderDefault == 1000
SliderStep == 100

SliderValues == {SliderMin + SliderStep * j : j \in 0..((SliderMax - SliderMin) \div SliderStep)}

Principals == {v \in SliderValues : v <= SliderMin + MaxSliderSteps * SliderStep}
              \cup {SliderDefault, SliderMax}

HighThreshold == 4
ModerateThreshold == 2

NoStats == [highest |-> Unset, lowest |-> Unset, average |-> Unset,
            current |-> Unset, total_return |-> Unset]

(***************************************************************************)
(* The run                                                                 *)
(***************************************************************************)
Init ==
    /\ pc = "load"
    /\ data = <<>>
    /\ error = "none"
    /\ current_price = Unset
    /\ previous_price = Unset
    /\ change = Unset
    /\ change_pct = Unset
    /\ ma7 = <<>>
    /\ daily_returns = <<>>
    /\ investment = 0
    /\ first_price = Unset
    /\ shares = Unset
    /\ current_value = Unset
    /\ profit = Unset
    /\ profit_pct = Unset
    /\ profit_msg = "none"
    /\ clean_returns = <<>>
    /\ volatility = Unset
    /\ avg_return = Unset
    /\ max_gain = Unset
    /\ max_loss = Unset
    /\ risk = "none"
    /\ stats = NoStats

metricVars == <<current_price, previous_price, change, change_pct, ma7,
                daily_returns, investment, first_price, shares, current_value,
                profit, profit_pct, profit_msg, clean_returns, volatility,
                avg_return, max_gain, max_loss, risk, stats>>

\* load_data: the provider's history for the ticker and period
LoadData ==
    /\ pc = "load"
    /\ \E s \in SeriesInputs : data' = s
    /\ pc' = "validate"
    /\ UNCHANGED <<error, metricVars>>

\* load_data: the fetch raised, an empty DataFrame is returned
LoadDataException ==
    /\ pc = "load"
    /\ data' = <<>>
    /\ pc' = "validate"
    /\ UNCHANGED <<error, metricVars>>

\* if data.empty: st.error(...); st.stop()
StopEmpty ==
    /\ pc = "validate"
    /\ Len(data) = 0
    /\ error' = "could_not_load"
    /\ pc' = "stopped"
    /\ UNCHANGED <<data, metricVars>>

\* a too-short series reported with the message of the empty one
StopNotEnoughAsEmpty ==
    /\ pc = "validate"
    /\ Len(data) # 0
    /\ Len(data) < 2
    /\ error' = "could_not_load"
    /\ pc' = "stopped"
    /\ UNCHANGED <<data, metricVars>>

\* if len(data) < 2: st.error(...); st.stop()
StopNotEnough ==
    /\ pc = "validate"
    /\ Len(data) # 0
    /\ Len(data) < 2
    /\ error' = "not_enough_data"
    /\ pc' = "stopped"
    /\ UNCHANGED <<data, metricVars>>

\* both checks pass
Validated ==
    /\ pc = "validate"
    /\ Len(data) # 0
    /\ ~(Len(data) < 2)
    /\ pc' = "overview"
    /\ UNCHANGED <<data, error, metricVars>>

\* data['Close'].iloc[-1]
CurrentPrice(s) == Close(s)[Len(s)]

\* the first bar taken for the previous one
PreviousPriceFirst(s) == Close(s)[1]

\* data['Close'].iloc[-2]
PreviousPrice(s) == Close(s)[Len(s) - 1]

\* current_price, previous_price, change, change_pct
Overview ==
    /\ pc = "overview"
    /\ LET cur == CurrentPrice(data)
           prev == PreviousPrice(data)
       IN /\ current_price' = cur
          /\ previous_price' = prev
          /\ change' = Sub(cur, prev)
          /\ change_pct' = Mul(Div(Sub(cur, prev), prev), Num(100))
    /\ pc' = "price_chart"
    /\ UNCHANGED <<data, error, ma7, daily_returns, investment, first_price,
                   shares, current_value, profit, profit_pct, profit_msg,
                   clean_returns, volatility, avg_return, max_gain, max_loss,
                   risk, stats>>

\* the 7-day moving average, drawn only when there are 7 bars or more
PriceChart ==
    /\ pc = "price_chart"
    /\ ma7' = IF Len(data) >= WINDOW THEN RollingMean(Close(data), WINDOW)
              ELSE ma7
    /\ pc' = "returns_chart"
    /\ UNCHANGED <<data, error, current_price, previous_price, change,
                   change_pct, daily_returns, investment, first_price, shares,
                   current_value, profit, profit_pct, profit_msg,
                   clean_returns, volatility, avg_return, max_gain, max_loss,
                   risk, stats>>

\* daily_returns = data['Close'].pct_change() * 100
ReturnsChart ==
    /\ pc = "returns_chart"
    /\ daily_returns' = ScaleSeq(PctChange(Close(data)), Num(100))
    /\ pc' = "calculator"
    /\ UNCHANGED <<data, error, current_price, previous_price, change,
                   change_pct, ma7, investment, first_price, shares,
                   current_value, profit, profit_pct, profit_msg,
                   clean_returns, volatility, avg_return, max_gain, max_loss,
                   risk, stats>>

Shares(inv, first) == Div(Num(inv), first)

CurrentValue(inv, first, cur) == Mul(Shares(inv, first), cur)

\* the purchase price of one share subtracted in place of the principal
ProfitLessFirst(inv, first, cur) == Sub(CurrentValue(inv, first, cur), first)

Profit(inv, first, cur) == Sub(CurrentValue(inv, first, cur), Num(inv))

\* the profit taken as a share of the current value
ProfitPctOfValue(inv, first, cur) ==
    Mul(Div(Profit(inv, first, cur), CurrentValue(inv, first, cur)), Num(100))

ProfitPct(inv, first, cur) == Mul(Div(Profit(inv, first, cur), Num(inv)), Num(100))

\* the slider, shares, current_value, profit, profit_pct and the message
InvestmentCalculator ==
    /\ pc = "calculator"
    /\ \E inv \in Principals :
         LET first == Close(data)[1] IN
         /\ investment' = inv
         /\ first_price' = first
         /\ shares' = Shares(inv, first)
         /\ current_value' = CurrentValue(inv, first, current_price)
         /\ profit' = Profit(inv, first, current_price)
         /\ profit_pct' = ProfitPct(inv, first, current_price)
         /\ profit_msg' = IF Gt(Profit(inv, first, current_price), Num(0))
                          THEN "made" ELSE "lost"
    /\ pc' = "insights"
    /\ UNCHANGED <<data, error, current_price, previous_price, change,
                   change_pct, ma7, daily_returns, clean_returns, volatility,
                   avg_return, max_gain, max_loss, risk, stats>>

\* >= in place of >
classifyVolatilityGe(vol) ==
    IF IsRoot(vol) /\ vol.n >= HighThreshold * HighThreshold * vol.d THEN "High"
    ELSE IF IsRoot(vol) /\ vol.n >= ModerateThreshold * ModerateThreshold * vol.d
    THEN "Moderate"
    ELSE "Low"

classifyVolatility(vol) ==
    IF GtThreshold(vol, HighThreshold) THEN "High"
    ELSE IF GtThreshold(vol, ModerateThreshold) THEN "Moderate"
    ELSE "Low"

\* clean_returns, the four return statistics and the risk assessment
KeyInsights ==
    /\ pc = "insights"
    /\ LET clean == DropNa(daily_returns) IN
       /\ clean_returns' = clean
       /\ IF Len(clean) > 0
          THEN /\ volatility' = Std(clean)
               /\ avg_return' = Mean(clean)
               /\ max_gain' = MaxSeq(clean)
               /\ max_loss' = MinSeq(clean)
               /\ risk' = classifyVolatility(Std(clean))
          ELSE UNCHANGED <<volatility, avg_return, max_gain, max_loss, risk>>
    /\ pc' = "statistics"
    /\ UNCHANGED <<data, error, current_price, previous_price, change,
                   change_pct, ma7, daily_returns, investment, first_price,
                   shares, current_value, profit, profit_pct, profit_msg,
                   stats>>

TotalReturn(cur, first) == Mul(Div(Sub(cur, first), first), Num(100))

\* the table of price statistics
StatisticsSummary ==
    /\ pc = "statistics"
    /\ stats' = [highest |-> MaxSeq(Close(data)),
                 lowest |-> MinSeq(Close(data)),
                 average |-> Mean(Close(data)),
                 current |-> current_price,
                 total_return |-> TotalReturn(current_price, first_price)]
    /\ pc' = "done"
    /\ UNCHANGED <<data, error, current_price, previous_price, change,
                   change_pct, ma7, daily_returns, investment, first_price,
                   shares, current_value, profit, profit_pct, profit_msg,
                   clean_returns, volatility, avg_return, max_gain, max_loss,
                   risk>>

Next ==
    \/ LoadData
    \/ LoadDataException
    \/ StopEmpty
    \/ StopNotEnough
    \/ Validated
    \/ Overview
    \/ PriceChart
    \/ ReturnsChart
    \/ InvestmentCalculator
    \/ KeyInsights
    \/ StatisticsSummary

Spec == Init /\ [][Next]_vars

(***************************************************************************)
(* Properties                                                              *)
(***************************************************************************)
N == Len(data)

AfterValidate == pc \notin {"load", "validate"}
AfterOverview == pc \in {"price_chart", "returns_chart", "calculator",
                         "insights", "statistics", "done"}
AfterPriceChart == pc \in {"returns_chart", "calculator", "insights",
                           "statistics", "done"}
AfterCalculator == pc \in {"insights", "statistics", "done"}
AfterInsights == pc \in {"statistics", "done"}

NoMetricComputed ==
    /\ current_price = Unset /\ previous_price = Unset
    /\ change = Unset /\ change_pct = Unset
    /\ ma7 = <<>> /\ daily_returns = <<>> /\ clean_returns = <<>>
    /\ first_price = Unset /\ shares = Unset /\ current_value = Unset
    /\ profit = Unset /\ profit_pct = Unset /\ profit_msg = "none"
    /\ volatility = Unset /\ avg_return = Unset
    /\ max_gain = Unset /\ max_loss = Unset /\ risk = "none"
    /\ stats = NoStats

RECURSIVE IntSum(_, _, _)
IntSum(s, lo, hi) == IF lo > hi THEN 0 ELSE s[lo] + IntSum(s, lo + 1, hi)

\* the finite value v equals the fraction p/q (q # 0)
EqualsFraction(v, p, q) == IsFin(v) /\ v.n * q = v.d * p

\* C1: zero bars fail with the empty-series error, one bar fails with the
\* distinct not-enough-data error, two or more bars pass; after either
\* failure the run has stopped and no derived metric has been computed.
C1_Validation ==
    /\ AfterValidate =>
         /\ (N = 0 <=> error = "could_not_load")
         /\ (N = 1 <=> error = "not_enough_data")
         /\ (N >= 2 <=> error = "none")
    /\ error # "none" => (pc = "stopped" /\ NoMetricComputed)
    /\ pc = "stopped" => error # "none"

C1_Witness == pc = "stopped" /\ N = 1 /\ error = "not_enough_data"

\* C2: once the latest change has been computed on a series whose previous
\* close is 0, change_pct has not been divided out and a failure is reported.
C2_UndefinedChangePctSignalled ==
    (AfterOverview /\ previous_price = Num(0)) =>
        (change_pct = Unset /\ error # "none")

\* C3: once the calculator has run with a principal <= 0 or a first close
\* of 0, a failure is reported and shares, current_value, profit and
\* profit_pct have not been computed.
C3_InvestmentFailures ==
    (AfterCalculator /\ (investment <= 0 \/ first_price = Num(0))) =>
        /\ error # "none"
        /\ shares = Unset /\ current_value = Unset
        /\ profit = Unset /\ profit_pct = Unset

\* C4: for a series of n >= 7 bars the moving average has exactly n-6
\* defined points; the first 6 are absent (NaN, not zero) and the point at
\* each later index is the arithmetic mean of the 7 closes ending there.
C4_MovingAverage ==
    (AfterPriceChart /\ N >= 7) =>
        /\ Len(ma7) = N
        /\ Cardinality({i \in 1..N : ~IsNaN(ma7[i])}) = N - 6
        /\ \A i \in 1..6 : IsNaN(ma7[i])
        /\ \A i \in 7..N : EqualsFraction(ma7[i], IntSum(data, i - 6, i), 7)

C4_Witness ==
    /\ pc = "done" /\ N = 8
    /\ ma7[7] = Fin(8, 7) /\ ma7[8] = Fin(9, 7)

\* C5: for a validated series of n bars with positive closes there are
\* exactly n-1 defined daily returns, the first bar's return is absent, the
\* i-th defined return is (close[i+1]-close[i])/close[i]*100, and the mean,
\* standard deviation, max and min are taken over those n-1 returns only.
C5_DailyReturns ==
    (AfterInsights /\ \A i \in 1..N : data[i] > 0) =>
        /\ Len(daily_returns) = N
        /\ IsNaN(daily_returns[1])
        /\ Len(clean_returns) = N - 1
        /\ \A i \in 1..(N - 1) :
              /\ clean_returns[i] = daily_returns[i + 1]
              /\ EqualsFraction(clean_returns[i],
                                (data[i + 1] - data[i]) * 100, data[i])
        /\ Mul(avg_return, Num(N - 1)) = SumSeq(clean_returns)
        /\ \E i \in 1..(N - 1) : max_gain = clean_returns[i]
        /\ \E i \in 1..(N - 1) : max_loss = clean_returns[i]
        /\ \A i \in 1..(N - 1) :
              ~Gt(clean_returns[i], max_gain) /\ ~Gt(max_loss, clean_returns[i])
        /\ volatility = Std(clean_returns)

C5_Witness ==
    /\ pc = "done" /\ data = <<100, 110, 99>>
    /\ clean_returns = <<Num(10), Num(-10)>>
    /\ avg_return = Num(0) /\ max_loss = Num(-10)

\* C6: on a defined standard deviation the class is High exactly when it is
\* above 4, Moderate exactly when it is above 2 and at most 4, Low exactly
\* when it is at most 2; a deviation of exactly 4 is Moderate, of exactly 2
\* is Low.
C6_ClassifyVolatility ==
    (risk # "none" /\ IsRoot(volatility)) =>
        /\ (risk = "High" <=> volatility.n > 16 * volatility.d)
        /\ (risk = "Moderate" <=> (volatility.n > 4 * volatility.d
                                    /\ volatility.n <= 16 * volatility.d))
        /\ (risk = "Low" <=> volatility.n <= 4 * volatility.d)
        /\ risk \in {"High", "Moderate", "Low"}

C6_Witness ==
    /\ pc = "done" /\ risk = "Moderate"
    /\ IsRoot(volatility) /\ volatility.n = 16 * volatility.d

\* C7: with a non-zero first close, doubling the principal doubles the
\* shares, the current value and the profit exactly.
C7_LinearInPrincipal ==
    (AfterCalculator /\ first_price.n # 0) =>
        /\ Shares(2 * investment, first_price) = Mul(Num(2), shares)
        /\ CurrentValue(2 * investment, first_price, current_price)
              = Mul(Num(2), current_value)
        /\ Profit(2 * investment, first_price, current_price)
              = Mul(Num(2), profit)

C7_Witness ==
    /\ pc = "done" /\ data = <<100, 120>> /\ investment = 1000
    /\ shares = Num(10) /\ current_value = Num(1200) /\ profit = Num(200)
    /\ profit_pct = Num(20)

\* C8: the latest change is taken from the last two bars: current is the
\* last close, previous the one before, change their difference and
\* change_pct = change/previous*100; for [100, 110, 99] the change is -11,
\* change_pct is -10 and the total return is -1.
C8_LatestChange ==
    AfterOverview =>
        /\ current_price = Num(data[N])
        /\ previous_price = Num(data[N - 1])
        /\ change = Num(data[N] - data[N - 1])
        /\ data[N - 1] # 0 =>
              EqualsFraction(change_pct, (data[N] - data[N - 1]) * 100,
                             data[N - 1])
        /\ data = <<100, 110, 99>> =>
              /\ change = Num(-11)
              /\ change_pct = Num(-10)
              /\ pc = "done" => stats.total_return = Num(-1)

C8_Witness ==
    /\ pc = "done" /\ data = <<100, 110, 99>>
    /\ change_pct = Num(-10) /\ stats.total_return = Num(-1)

\* C9: whenever a volatility class is reported, the standard deviation it
\* comes from is defined and at least two defined daily returns exist.
C9_ClassifiedFromDefinedStd ==
    risk # "none" => (IsRoot(volatility) /\ Len(clean_returns) >= 2)

====
